---- MODULE Spec2Model ----
(***************************************************************************)
(* Model of go-macaron/binding (binding.go): request data binding          *)
(* (Form, MultipartForm, Json, bind/Bind), validation (Validate,           *)
(* validateStruct) and the default failure policy (ErrorHandler).          *)
(*                                                                         *)
(* Representation of Go values                                             *)
(*   string            a sequence of one-character strings (code points)   *)
(*   int*, uint*       an integer                                          *)
(*   bool              a BOOLEAN                                           *)
(*   float32/64        a normalised decimal <<m, s>> standing for m/10^s   *)
(*   slice             [isNil, elems]  (a nil slice and an empty non-nil   *)
(*                     slice differ under reflect.DeepEqual)               *)
(*   pointer           <<>> for nil, <<v>> for a pointer to v              *)
(*   struct            the tuple of its field values, in declared order    *)
(* Go types are named by their Go spelling ("int8", "[]int", "*Person").   *)
(***************************************************************************)
EXTENDS Integers, Sequences, FiniteSets, TLC

VARIABLES pc, handler, target, req, data, ctxErrors, ctxObj, resp, invoked

vars == <<pc, handler, target, req, data, ctxErrors, ctxObj, resp, invoked>>

(***************************************************************************)
(* Strings                                                                 *)
(***************************************************************************)
Digit == {"0", "1", "2", "3", "4", "5", "6", "7", "8", "9"}

Lower == {"a", "b", "c", "d", "e", "f", "g", "h", "i", "j", "k", "l", "m",
          "n", "o", "p", "q", "r", "s", "t", "u", "v", "w", "x", "y", "z"}

Upper == {"A", "B", "C", "D", "E", "F", "G", "H", "I", "J", "K", "L", "M",
          "N", "O", "P", "Q", "R", "S", "T", "U", "V", "W", "X", "Y", "Z"}

\* \w of the regexp package: [0-9A-Za-z_]
Word == Digit \cup Lower \cup Upper \cup {"_"}

\* The code points outside ASCII that the model's strings use, with the
\* number of bytes of their UTF-8 encoding.
TwoByteRunes == {"é", "ü"}

Utf8Width(c) == IF c \in TwoByteRunes THEN 2 ELSE 1

RECURSIVE ByteLen(_)
\* len(str): the number of bytes of the string.
ByteLen(s) == IF s = <<>> THEN 0 ELSE Utf8Width(Head(s)) + ByteLen(Tail(s))

\* Faulty variant of RuneCountInString: bytes counted for code points.
RuneCountInString_Bytes(s) == ByteLen(s)

\* utf8.RuneCountInString(str): the number of code points.
RuneCountInString(s) == Len(s)

\* strings.HasPrefix(s, p)
HasPrefix(s, p) == Len(s) >= Len(p) /\ SubSeq(s, 1, Len(p)) = p

\* strings.Contains(s, sub)
Contains(s, sub) ==
    \E i \in 1..(Len(s) + 1) :
        i + Len(sub) - 1 <= Len(s) /\ SubSeq(s, i, i + Len(sub) - 1) = sub

RECURSIVE SplitFrom(_, _, _)
SplitFrom(s, sep, cur) ==
    IF s = <<>> THEN <<cur>>
    ELSE IF Head(s) = sep THEN <<cur>> \o SplitFrom(Tail(s), sep, <<>>)
    ELSE SplitFrom(Tail(s), sep, Append(cur, Head(s)))

\* strings.Split(s, sep) for a one-character separator: always at least one
\* (possibly empty) piece.
Split(s, sep) == SplitFrom(s, sep, <<>>)

DigitVal(c) ==
    CASE c = "0" -> 0 [] c = "1" -> 1 [] c = "2" -> 2 [] c = "3" -> 3
      [] c = "4" -> 4 [] c = "5" -> 5 [] c = "6" -> 6 [] c = "7" -> 7
      [] c = "8" -> 8 [] c = "9" -> 9

AllDigits(s) == \A i \in 1..Len(s) : s[i] \in Digit

RECURSIVE DigitsVal(_, _)
DigitsVal(s, acc) ==
    IF s = <<>> THEN acc ELSE DigitsVal(Tail(s), acc * 10 + DigitVal(Head(s)))

\* The longest digit string whose value is computed; every raw value of the
\* model is shorter, and far below the 19 digits where the 64-bit range
\* check of strconv starts to matter.
MaxDigits == 9

\* strconv.ParseUint(s, 10, 64): no sign is accepted.
ParseUint(s) ==
    IF s # <<>> /\ AllDigits(s) /\ Len(s) <= MaxDigits
    THEN [ok |-> TRUE, val |-> DigitsVal(s, 0)]
    ELSE [ok |-> FALSE, val |-> 0]

\* strconv.ParseInt(s, 10, 64): an optional sign, then ParseUint.
ParseInt(s) ==
    IF s = <<>> THEN [ok |-> FALSE, val |-> 0]
    ELSE LET neg  == Head(s) = "-"
             rest == IF Head(s) \in {"+", "-"} THEN Tail(s) ELSE s
             u    == ParseUint(rest)
         IN  IF ~u.ok THEN [ok |-> FALSE, val |-> 0]
             ELSE [ok |-> TRUE, val |-> IF neg THEN 0 - u.val ELSE u.val]

\* strconv.Atoi(s)
Atoi(s) == ParseInt(s)

\* strconv.ParseBool(s)
ParseBool(s) ==
    IF s \in {<<"1">>, <<"t">>, <<"T">>, <<"T", "R", "U", "E">>,
              <<"t", "r", "u", "e">>, <<"T", "r", "u", "e">>}
    THEN [ok |-> TRUE, val |-> TRUE]
    ELSE IF s \in {<<"0">>, <<"f">>, <<"F">>, <<"F", "A", "L", "S", "E">>,
                   <<"f", "a", "l", "s", "e">>, <<"F", "a", "l", "s", "e">>}
    THEN [ok |-> TRUE, val |-> FALSE]
    ELSE [ok |-> FALSE, val |-> FALSE]

RECURSIVE Normalise(_, _)
\* m/10^s without trailing zeros of the fraction; zero is <<0, 0>>.
Normalise(m, s) ==
    IF m = 0 THEN <<0, 0>>
    ELSE IF s > 0 /\ m % 10 = 0 THEN Normalise(m \div 10, s - 1)
    ELSE <<m, s>>

\* strconv.ParseFloat(s, bitSize) on decimal literals without exponent:
\* [+-]? digits* ( "." digits* )? with at least one digit.  The raw values of
\* the model hold no exponent, hexadecimal, underscore, "inf" or "nan"
\* literal, and each of its decimal literals denotes a distinct float32 and
\* a distinct float64.
ParseFloat(s) ==
    LET neg  == s # <<>> /\ Head(s) = "-"
        rest == IF s # <<>> /\ Head(s) \in {"+", "-"} THEN Tail(s) ELSE s
        dots == {i \in 1..Len(rest) : rest[i] = "."}
        dot  == IF dots = {} THEN Len(rest) + 1
                ELSE CHOOSE i \in dots : \A j \in dots : i <= j
        ip   == SubSeq(rest, 1, dot - 1)
        fp   == SubSeq(rest, dot + 1, Len(rest))
        good == /\ Cardinality(dots) <= 1
                /\ AllDigits(ip) /\ AllDigits(fp)
                /\ Len(ip) + Len(fp) >= 1
                /\ Len(ip) + Len(fp) <= MaxDigits
    IN  IF ~good THEN [ok |-> FALSE, val |-> <<0, 0>>]
        ELSE LET m == DigitsVal(ip \o fp, 0)
             IN  [ok |-> TRUE,
                  val |-> Normalise(IF neg THEN 0 - m ELSE m, Len(fp))]

RECURSIVE UintDigits(_)
UintDigits(n) ==
    LET d == <<"0", "1", "2", "3", "4", "5", "6", "7", "8", "9">>
    IN  IF n < 10 THEN <<d[n + 1]>>
        ELSE Append(UintDigits(n \div 10), d[(n % 10) + 1])

\* strconv.Itoa / the %v rendering of an integer.
Itoa(n) == IF n < 0 THEN <<"-">> \o UintDigits(0 - n) ELSE UintDigits(n)

(***************************************************************************)
(* Regular expressions (package regexp): a pattern is a tree, Ends gives   *)
(* the positions at which a match starting at position i can end.          *)
(***************************************************************************)
Cls(S) == [t |-> "cls", set |-> S]

NotCls(S) == [t |-> "ncls", set |-> S]

Cat(ps) == [t |-> "cat", parts |-> ps]

Alt(x, y) == [t |-> "alt", a |-> x, b |-> y]

Star(x) == [t |-> "star", a |-> x]

Plus(x) == [t |-> "plus", a |-> x]

Opt(x) == [t |-> "opt", a |-> x]

Lit(s) == Cat([i \in 1..Len(s) |-> Cls({s[i]})])

RECURSIVE Ends(_, _, _)
RECURSIVE StarClose(_, _, _, _)
Ends(re, s, i) ==
    CASE re.t = "cls"  -> IF i <= Len(s) /\ s[i] \in re.set THEN {i + 1} ELSE {}
      [] re.t = "ncls" -> IF i <= Len(s) /\ s[i] \notin re.set THEN {i + 1} ELSE {}
      [] re.t = "cat"  ->
            IF re.parts = <<>> THEN {i}
            ELSE UNION {Ends(Cat(Tail(re.parts)), s, j) :
                            j \in Ends(Head(re.parts), s, i)}
      [] re.t = "alt"  -> Ends(re.a, s, i) \cup Ends(re.b, s, i)
      [] re.t = "star" -> StarClose(re.a, s, {i}, {i})
      [] re.t = "plus" -> UNION {StarClose(re.a, s, {j}, {j}) : j \in Ends(re.a, s, i)}
      [] re.t = "opt"  -> {i} \cup Ends(re.a, s, i)

StarClose(a, s, frontier, seen) ==
    LET nxt == (UNION {Ends(a, s, j) : j \in frontier}) \ seen
    IN  IF nxt = {} THEN seen ELSE StarClose(a, s, nxt, seen \cup nxt)

\* Regexp.MatchString: is there a match anywhere in s.
MatchString(re, s) == \E i \in 1..(Len(s) + 1) : Ends(re, s, i) # {}

\* [^\d\w-_]
alphaDashPattern == NotCls(Word \cup {"-"})

\* [^\d\w-_\.]
alphaDashDotPattern == NotCls(Word \cup {"-", "."})

\* The class of the local part; the backquote of the source's class cannot be
\* written in a string here and occurs in no string of the model.
EmailAtom ==
    Cls(Word \cup {"!", "#", "$", "%", "&", "'", "*", "+", "/", "=", "?",
                   "^", "{", "|", "}", "~", "-"})

\* [\w!#$%&'*+/=?^_{|}~-]+(?:\.[\w!#$%&'*+/=?^_{|}~-]+)*@
\* (?:[\w](?:[\w-]*[\w])?\.)+[a-zA-Z0-9](?:[\w-]*[\w])?
emailPattern ==
    Cat(<<Plus(EmailAtom),
          Star(Cat(<<Cls({"."}), Plus(EmailAtom)>>)),
          Cls({"@"}),
          Plus(Cat(<<Cls(Word),
                     Opt(Cat(<<Star(Cls(Word \cup {"-"})), Cls(Word)>>)),
                     Cls({"."})>>)),
          Cls(Digit \cup Lower \cup Upper),
          Opt(Cat(<<Star(Cls(Word \cup {"-"})), Cls(Word)>>))>>)

\* (http|https):\/\/[\w\-_]+(\.[\w\-_]+)+
\* ([\w\-\.,@?^=%&amp;:/~\+#]*[\w\-\@?^=%&amp;/~\+#])?
urlPattern ==
    Cat(<<Alt(Lit(<<"h", "t", "t", "p">>), Lit(<<"h", "t", "t", "p", "s">>)),
          Lit(<<":", "/", "/">>),
          Plus(Cls(Word \cup {"-"})),
          Plus(Cat(<<Cls({"."}), Plus(Cls(Word \cup {"-"}))>>)),
          Opt(Cat(<<Star(Cls(Word \cup {"-", ".", ",", "@", "?", "^", "=", "%",
                                        "&", ";", ":", "/", "~", "+", "#"})),
                    Cls(Word \cup {"-", "@", "?", "^", "=", "%", "&", ";",
                                   "/", "~", "+", "#"})>>))>>)

(***************************************************************************)
(* Errors (type Errors, its methods Add and Has, and the classification    *)
(* constants live in errors.go).                                           *)
(***************************************************************************)
ContentTypeError == "content-type"

DeserializationError == "deserialization"

RequiredError == "required"

IntegerTypeError == "integer-type"

BooleanTypeError == "boolean-type"

FloatTypeError == "float-type"

AlphaDashError == "AlphaDash"

AlphaDashDotError == "AlphaDashDot"

MinSizeError == "MinSize"

MaxSizeError == "MaxSize"

EmailError == "Email"

UrlError == "Url"

Error(fieldNames, classification, message) ==
    [FieldNames |-> fieldNames, Classification |-> classification,
     Message |-> message]

\* (e *Errors) Add: append one error to the list the receiver points to.
Add(errors, fieldNames, classification, message) ==
    Append(errors, Error(fieldNames, classification, message))

\* (e Errors) Has: is there an error of the given classification.
Has(errors, class) == \E i \in 1..Len(errors) : errors[i].Classification = class

(***************************************************************************)
(* Go types and the schemas bound and validated                            *)
(***************************************************************************)
IntKinds == {"int", "int8", "int16", "int32", "int64"}

UintKinds == {"uint", "uint8", "uint16", "uint32", "uint64"}

StructTypes == {"Post", "Person", "BlogPost", "EmbedPerson", "SadForm",
                "Settings", "Broken", "Team", "FileHeader"}

\* reflect.Type.Kind()
Kind(t) ==
    CASE t \in IntKinds \cup UintKinds \cup {"bool", "float32", "float64", "string"} -> t
      [] t \in StructTypes -> "struct"
      [] t \in {"*Person", "*FileHeader", "*Post", "*BlogPost", "*EmbedPerson",
                "*SadForm", "*Settings", "*Broken"} -> "ptr"
      [] t \in {"[]int", "[]string", "[]bool", "[]*FileHeader", "[]Post",
                "[]BlogPost", "[]SadForm"} -> "slice"

\* reflect.Type.Elem()
Elem(t) ==
    CASE t = "*Person" -> "Person"
      [] t = "*FileHeader" -> "FileHeader"
      [] t = "*Post" -> "Post"
      [] t = "*BlogPost" -> "BlogPost"
      [] t = "*EmbedPerson" -> "EmbedPerson"
      [] t = "*SadForm" -> "SadForm"
      [] t = "*Settings" -> "Settings"
      [] t = "*Broken" -> "Broken"
      [] t = "[]int" -> "int"
      [] t = "[]string" -> "string"
      [] t = "[]bool" -> "bool"
      [] t = "[]*FileHeader" -> "*FileHeader"
      [] t = "[]Post" -> "Post"
      [] t = "[]BlogPost" -> "BlogPost"
      [] t = "[]SadForm" -> "SadForm"

\* reflect.TypeOf((*multipart.FileHeader)(nil))
fhType == "*FileHeader"

\* One reflect.StructField: Exported is PkgPath = "", form and binding are
\* Tag.Get("form") and Tag.Get("binding").
Field(name, type, anonymous, exported, form, binding) ==
    [Name |-> name, Type |-> type, Anonymous |-> anonymous,
     Exported |-> exported, form |-> form, binding |-> binding]

tagRequired == <<"R", "e", "q", "u", "i", "r", "e", "d">>

tagAlphaDash == <<"A", "l", "p", "h", "a", "D", "a", "s", "h">>

tagAlphaDashDot == tagAlphaDash \o <<"D", "o", "t">>

tagMinSize == <<"M", "i", "n", "S", "i", "z", "e", "(">>

tagMaxSize == <<"M", "a", "x", "S", "i", "z", "e", "(">>

tagEmail == <<"E", "m", "a", "i", "l">>

tagUrl == <<"U", "r", "l">>

\* The struct types of common_test.go, multipart.FileHeader as an opaque
\* handle with a name, and two further schemas given to the binder: Settings
\* has one field of each primitive kind setWithProperType switches over and
\* fields with several rules; Broken carries a truncated MinSize tag; Team
\* has a nested struct field with a rule of its own.
Fields(T) ==
    CASE T = "Post" ->
            <<Field("Title", "string", FALSE, TRUE, "title", tagRequired),
              Field("Content", "string", FALSE, TRUE, "content", <<>>)>>
      [] T = "Person" ->
            <<Field("Name", "string", FALSE, TRUE, "name", tagRequired),
              Field("Email", "string", FALSE, TRUE, "email", <<>>)>>
      [] T = "BlogPost" ->
            <<Field("Post", "Post", TRUE, TRUE, "", <<>>),
              Field("Id", "int", FALSE, TRUE, "id", tagRequired),
              Field("Ignored", "string", FALSE, TRUE, "-", <<>>),
              Field("Ratings", "[]int", FALSE, TRUE, "rating", <<>>),
              Field("Author", "Person", FALSE, TRUE, "", <<>>),
              Field("Coauthor", "*Person", FALSE, TRUE, "", <<>>),
              Field("HeaderImage", "*FileHeader", FALSE, TRUE, "headerImage", <<>>),
              Field("Pictures", "[]*FileHeader", FALSE, TRUE, "picture", <<>>),
              Field("unexported", "string", FALSE, FALSE, "unexported", <<>>)>>
      [] T = "EmbedPerson" ->
            <<Field("Person", "*Person", TRUE, TRUE, "", <<>>)>>
      [] T = "SadForm" ->
            <<Field("AlphaDash", "string", FALSE, TRUE, "AlphaDash", tagAlphaDash),
              Field("AlphaDashDot", "string", FALSE, TRUE, "AlphaDashDot", tagAlphaDashDot),
              Field("MinSize", "string", FALSE, TRUE, "MinSize", tagMinSize \o <<"5", ")">>),
              Field("MinSizeSlice", "[]string", FALSE, TRUE, "MinSizeSlice",
                    tagMinSize \o <<"5", ")">>),
              Field("MaxSize", "string", FALSE, TRUE, "MaxSize", tagMaxSize \o <<"1", ")">>),
              Field("MaxSizeSlice", "[]string", FALSE, TRUE, "MaxSizeSlice",
                    tagMaxSize \o <<"1", ")">>),
              Field("Email", "string", FALSE, TRUE, "Email", tagEmail),
              Field("Url", "string", FALSE, TRUE, "Url", tagUrl),
              Field("UrlEmpty", "string", FALSE, TRUE, "UrlEmpty", tagUrl)>>
      [] T = "Settings" ->
            <<Field("Level", "int8", FALSE, TRUE, "level", <<>>),
              Field("Count", "uint", FALSE, TRUE, "count", tagRequired),
              Field("Active", "bool", FALSE, TRUE, "active", <<>>),
              Field("Ratio", "float32", FALSE, TRUE, "ratio", <<>>),
              Field("Score", "float64", FALSE, TRUE, "score", <<>>),
              Field("Nick", "string", FALSE, TRUE, "nick",
                    tagMinSize \o <<"2", ")", ";">> \o tagMaxSize \o <<"3", ")">>),
              Field("Home", "string", FALSE, TRUE, "home",
                    tagUrl \o <<";">> \o tagMaxSize \o <<"2", ")">> \o <<";">>
                        \o tagRequired),
              Field("Flags", "[]bool", FALSE, TRUE, "flag",
                    tagMinSize \o <<"2", ")">>)>>
      [] T = "Broken" ->
            <<Field("Name", "string", FALSE, TRUE, "name", tagMinSize)>>
      [] T = "Team" ->
            <<Field("Lead", "Person", FALSE, TRUE, "", tagRequired),
              Field("Size", "int", FALSE, TRUE, "size", tagRequired)>>
      [] T = "FileHeader" ->
            <<Field("Filename", "string", FALSE, TRUE, "", <<>>)>>

NumField(T) == Len(Fields(T))

NilSlice == [isNil |-> TRUE, elems |-> <<>>]

\* reflect.MakeSlice / a slice literal: a non-nil slice of the elements.
MakeSlice(es) == [isNil |-> FALSE, elems |-> es]

RECURSIVE Zero(_)
\* reflect.Zero(t).Interface()
Zero(t) ==
    LET k == Kind(t)
    IN  CASE k \in IntKinds \cup UintKinds -> 0
          [] k = "bool" -> FALSE
          [] k \in {"float32", "float64"} -> <<0, 0>>
          [] k = "string" -> <<>>
          [] k = "slice" -> NilSlice
          [] k = "ptr" -> <<>>
          [] k = "struct" -> [i \in 1..NumField(t) |-> Zero(Fields(t)[i].Type)]

\* reflect.DeepEqual on two values of one type: the representation is
\* canonical, so it is equality.
DeepEqual(a, b) == a = b

\* reflect.Value.SetInt / SetUint: the value is stored converted to the
\* field's own width (int8(x), uint8(x), ...).
Bits(k) ==
    CASE k \in {"int8", "uint8"} -> 8
      [] k \in {"int16", "uint16"} -> 16
      [] k \in {"int32", "uint32"} -> 32
      [] k \in {"int", "uint", "int64", "uint64"} -> 64

Pow2(n) == IF n = 8 THEN 256 ELSE 65536

SetInt(k, x) ==
    IF Bits(k) >= 32 THEN x
    ELSE ((x + Pow2(Bits(k)) \div 2) % Pow2(Bits(k))) - Pow2(Bits(k)) \div 2

SetUint(k, x) == IF Bits(k) >= 32 THEN x ELSE x % Pow2(Bits(k))

(***************************************************************************)
(* Binding: setWithProperType and mapForm                                  *)
(***************************************************************************)
\* Faulty variant of setBool: a parsed false is written like a parsed true.
setBool_WriteFalse(val, structField, nameInTag, errors) ==
    IF val = <<"o", "n">> THEN [field |-> TRUE, errors |-> errors]
    ELSE LET p == ParseBool(IF val = <<>> THEN <<"f", "a", "l", "s", "e">> ELSE val)
         IN  IF ~p.ok
             THEN [field |-> structField,
                   errors |-> Add(errors, <<nameInTag>>, BooleanTypeError,
                                  "Value could not be parsed as boolean")]
             ELSE [field |-> p.val, errors |-> errors]

\* binding.go:400-414: the case reflect.Bool of setWithProperType.
setBool(val, structField, nameInTag, errors) ==
    IF val = <<"o", "n">> THEN [field |-> TRUE, errors |-> errors]
    ELSE LET p == ParseBool(IF val = <<>> THEN <<"f", "a", "l", "s", "e">> ELSE val)
         IN  IF ~p.ok
             THEN [field |-> structField,
                   errors |-> Add(errors, <<nameInTag>>, BooleanTypeError,
                                  "Value could not be parsed as boolean")]
             ELSE IF p.val THEN [field |-> TRUE, errors |-> errors]
             ELSE [field |-> structField, errors |-> errors]

\* setWithProperType(valueKind, val, structField, nameInTag, errors): field
\* is the value of structField afterwards, errors the callee's list
\* afterwards.  errors is a parameter of type Errors passed by value
\* (binding.go:378), so Add changes the callee's copy alone.
setWithProperType(valueKind, val, structField, nameInTag, errors) ==
    CASE valueKind \in IntKinds ->
            LET p == ParseInt(IF val = <<>> THEN <<"0">> ELSE val)
            IN  IF ~p.ok
                THEN [field |-> structField,
                      errors |-> Add(errors, <<nameInTag>>, IntegerTypeError,
                                     "Value could not be parsed as integer")]
                ELSE [field |-> SetInt(valueKind, p.val), errors |-> errors]
      [] valueKind \in UintKinds ->
            LET p == ParseUint(IF val = <<>> THEN <<"0">> ELSE val)
            IN  IF ~p.ok
                THEN [field |-> structField,
                      errors |-> Add(errors, <<nameInTag>>, IntegerTypeError,
                                     "Value could not be parsed as unsigned integer")]
                ELSE [field |-> SetUint(valueKind, p.val), errors |-> errors]
      [] valueKind = "bool" -> setBool(val, structField, nameInTag, errors)
      [] valueKind = "float32" ->
            LET p == ParseFloat(IF val = <<>> THEN <<"0", ".", "0">> ELSE val)
            IN  IF ~p.ok
                THEN [field |-> structField,
                      errors |-> Add(errors, <<nameInTag>>, FloatTypeError,
                                     "Value could not be parsed as 32-bit float")]
                ELSE [field |-> p.val, errors |-> errors]
      [] valueKind = "float64" ->
            LET p == ParseFloat(IF val = <<>> THEN <<"0", ".", "0">> ELSE val)
            IN  IF ~p.ok
                THEN [field |-> structField,
                      errors |-> Add(errors, <<nameInTag>>, FloatTypeError,
                                     "Value could not be parsed as 64-bit float")]
                ELSE [field |-> p.val, errors |-> errors]
      [] valueKind = "string" -> [field |-> val, errors |-> errors]
      [] OTHER -> [field |-> structField, errors |-> errors]

RECURSIVE setSlice(_, _, _, _, _, _, _)
\* binding.go:320-322: the loop over the raw values of a slice field; slice
\* holds the elements made so far, errors is mapForm's own list, which the
\* calls leave as it is.
\* Faulty variant of setSlice: the loop ends at the first raw value that
\* cannot be coerced, the elements after it stay zero.
setSlice_StopOnError(sliceOf, elemType, inputValue, i, slice, nameInTag, errors) ==
    IF i > Len(inputValue) THEN slice
    ELSE IF setWithProperType(sliceOf, inputValue[i], Zero(elemType),
                              nameInTag, errors).errors # errors
    THEN slice \o [j \in 1..(Len(inputValue) - i + 1) |-> Zero(elemType)]
    ELSE setSlice(sliceOf, elemType, inputValue, i + 1,
                  Append(slice,
                         setWithProperType(sliceOf, inputValue[i], Zero(elemType),
                                           nameInTag, errors).field),
                  nameInTag, errors)

\* Faulty variant of setSlice: every element is made from the first raw
\* value.
setSlice_First(sliceOf, elemType, inputValue, i, slice, nameInTag, errors) ==
    IF i > Len(inputValue) THEN slice
    ELSE setSlice(sliceOf, elemType, inputValue, i + 1,
                  Append(slice,
                         setWithProperType(sliceOf, inputValue[1], Zero(elemType),
                                           nameInTag, errors).field),
                  nameInTag, errors)

\* binding.go:318-322: the loop from raw value i on.
setSlice(sliceOf, elemType, inputValue, i, slice, nameInTag, errors) ==
    IF i > Len(inputValue) THEN slice
    ELSE setSlice(sliceOf, elemType, inputValue, i + 1,
                  Append(slice,
                         setWithProperType(sliceOf, inputValue[i], Zero(elemType),
                                           nameInTag, errors).field),
                  nameInTag, errors)

\* Faulty variant of fileSlice: every element is the first handle.
fileSlice_First(inputFile) ==
    MakeSlice([j \in 1..Len(inputFile) |-> inputFile[1]])

\* binding.go:337-341: the slice of the handles of a key, in their order.
fileSlice(inputFile) == MakeSlice(inputFile)

\* Faulty variant of embeddedPointer: the pointer is never reset to nil.
embeddedPointer_Keep(T, inner) == <<inner>>

\* binding.go:304-306: the embedded pointer after the walk of the struct it
\* points to: nil again when that struct equals its zero value.
embeddedPointer(T, inner) ==
    IF DeepEqual(inner, Zero(T)) THEN <<>> ELSE <<inner>>

RECURSIVE mapFormFrom(_, _, _, _, _, _, _)
\* mapForm's loop from field i on.  canSet is whether the fields of
\* formStruct are settable (the struct is addressable and was reached through
\* exported fields only).  The result is the struct afterwards and whether
\* the walk panicked.  errors is passed by value to mapForm and on to
\* setWithProperType (binding.go:289-290, 303, 308, 321, 325), so nothing a
\* callee adds comes back: the parameter is left out of the result.
mapFormFrom(T, formStruct, i, form, formfile, errors, canSet) ==
    IF i > NumField(T) THEN [val |-> formStruct, panicked |-> FALSE]
    ELSE
    LET typeField   == Fields(T)[i]
        structField == formStruct[i]
        fieldSet    == canSet /\ typeField.Exported
        rest(v)     == mapFormFrom(T, [formStruct EXCEPT ![i] = v], i + 1,
                                   form, formfile, errors, canSet)
        panic       == [val |-> formStruct, panicked |-> TRUE]
    IN
    IF Kind(typeField.Type) = "ptr" /\ typeField.Anonymous
    THEN IF ~fieldSet THEN panic
         ELSE LET r == mapFormFrom(Elem(typeField.Type), Zero(Elem(typeField.Type)),
                                   1, form, formfile, errors, TRUE)
              IN  IF r.panicked THEN panic
                  ELSE rest(embeddedPointer(Elem(typeField.Type), r.val))
    ELSE IF Kind(typeField.Type) = "struct"
    THEN LET r == mapFormFrom(typeField.Type, structField, 1, form, formfile,
                              errors, fieldSet)
         IN  IF r.panicked THEN panic ELSE rest(r.val)
    ELSE IF typeField.form # ""
    THEN LET inputFieldName == typeField.form
         IN
         IF ~fieldSet THEN rest(structField)
         ELSE IF inputFieldName \in DOMAIN form
         THEN LET inputValue == form[inputFieldName]
                  numElems   == Len(inputValue)
              IN  IF Kind(typeField.Type) = "slice" /\ numElems > 0
                  THEN rest(MakeSlice(
                           setSlice(Kind(Elem(typeField.Type)), Elem(typeField.Type),
                                    inputValue, 1, <<>>, inputFieldName, errors)))
                  ELSE IF numElems = 0 THEN panic
                  ELSE rest(setWithProperType(Kind(typeField.Type), inputValue[1],
                                              structField, inputFieldName,
                                              errors).field)
         ELSE IF inputFieldName \notin DOMAIN formfile THEN rest(structField)
         ELSE LET inputFile == formfile[inputFieldName]
                  numElems  == Len(inputFile)
              IN  IF /\ Kind(typeField.Type) = "slice" /\ numElems > 0
                     /\ Elem(typeField.Type) = fhType
                  THEN rest(fileSlice(inputFile))
                  ELSE IF typeField.Type = fhType
                  THEN IF numElems = 0 THEN panic ELSE rest(inputFile[1])
                  ELSE rest(structField)
    ELSE rest(structField)

\* mapForm(formStruct, form, formfile, errors) on the pointer reflect.New
\* gave: the struct is addressable, its exported fields settable.
mapForm(T, formStruct, form, formfile, errors) ==
    mapFormFrom(T, formStruct, 1, form, formfile, errors, TRUE)

(***************************************************************************)
(* Validation: validateStruct, the Validator hook, Validate                *)
(***************************************************************************)
RECURSIVE JoinSp(_)
JoinSp(ss) ==
    IF ss = <<>> THEN <<>>
    ELSE IF Len(ss) = 1 THEN ss[1]
    ELSE ss[1] \o <<" ">> \o JoinSp(Tail(ss))

\* fmt.Sprintf("%v", fieldValue) for the field types that carry a pattern
\* rule in the schemas above.
Sprint(t, v) ==
    CASE Kind(t) = "string" -> v
      [] Kind(t) \in IntKinds \cup UintKinds -> Itoa(v)
      [] Kind(t) = "bool" -> IF v THEN <<"t", "r", "u", "e">>
                             ELSE <<"f", "a", "l", "s", "e">>
      [] t = "[]string" -> <<"[">> \o JoinSp(v.elems) \o <<"]">>

\* rule[8 : len(rule)-1]
RuleArg(rule) == SubSeq(rule, 9, Len(rule) - 1)

\* Faulty variant of requiredRule: the test of the zero value inverted.
requiredRule_NonZero(errors, field, fieldValue) ==
    IF ~DeepEqual(Zero(field.Type), fieldValue)
    THEN Add(errors, <<field.Name>>, RequiredError, "Required")
    ELSE errors

\* binding.go:232-236: the Required rule.
requiredRule(errors, field, fieldValue) ==
    IF DeepEqual(Zero(field.Type), fieldValue)
    THEN Add(errors, <<field.Name>>, RequiredError, "Required")
    ELSE errors

\* One pass of the switch of binding.go:231-282 for one rule of one field:
\* the list afterwards, and whether the slice expression panicked.
matchRule(errors, rule, field, fieldValue) ==
    LET ok(e) == [errors |-> e, panicked |-> FALSE]
    IN
    CASE rule = tagRequired -> ok(requiredRule(errors, field, fieldValue))
      [] rule = tagAlphaDash ->
            IF MatchString(alphaDashPattern, Sprint(field.Type, fieldValue))
            THEN ok(Add(errors, <<field.Name>>, AlphaDashError, "AlphaDash"))
            ELSE ok(errors)
      [] rule = tagAlphaDashDot ->
            IF MatchString(alphaDashDotPattern, Sprint(field.Type, fieldValue))
            THEN ok(Add(errors, <<field.Name>>, AlphaDashDotError, "AlphaDashDot"))
            ELSE ok(errors)
      [] HasPrefix(rule, tagMinSize) ->
            IF Len(rule) - 1 < 8 THEN [errors |-> errors, panicked |-> TRUE]
            ELSE LET a   == Atoi(RuleArg(rule))
                     min == IF a.ok THEN a.val ELSE 0
                 IN  IF field.Type = "string" /\ RuneCountInString(fieldValue) < min
                     THEN ok(Add(errors, <<field.Name>>, MinSizeError, "MinSize"))
                     ELSE IF Kind(field.Type) = "slice" /\ Len(fieldValue.elems) < min
                     THEN ok(Add(errors, <<field.Name>>, MinSizeError, "MinSize"))
                     ELSE ok(errors)
      [] HasPrefix(rule, tagMaxSize) ->
            IF Len(rule) - 1 < 8 THEN [errors |-> errors, panicked |-> TRUE]
            ELSE LET a   == Atoi(RuleArg(rule))
                     max == IF a.ok THEN a.val ELSE 0
                 IN  IF field.Type = "string" /\ RuneCountInString(fieldValue) > max
                     THEN ok(Add(errors, <<field.Name>>, MaxSizeError, "MaxSize"))
                     ELSE IF Kind(field.Type) = "slice" /\ Len(fieldValue.elems) > max
                     THEN ok(Add(errors, <<field.Name>>, MaxSizeError, "MaxSize"))
                     ELSE ok(errors)
      [] rule = tagEmail ->
            IF ~MatchString(emailPattern, Sprint(field.Type, fieldValue))
            THEN ok(Add(errors, <<field.Name>>, EmailError, "Email"))
            ELSE ok(errors)
      [] rule = tagUrl ->
            LET str == Sprint(field.Type, fieldValue)
            IN  IF ByteLen(str) = 0 THEN ok(errors)
                ELSE IF ~MatchString(urlPattern, str)
                THEN ok(Add(errors, <<field.Name>>, UrlError, "Url"))
                ELSE ok(errors)
      [] OTHER -> ok(errors)

RECURSIVE matchRules(_, _, _, _)
\* The rest of the loop over the rules after one rule gave r: a panic ends
\* it.
nextRule(r, rules, field, fieldValue) ==
    IF r.panicked THEN r ELSE matchRules(r.errors, rules, field, fieldValue)

\* binding.go:226-283: the loop over strings.Split(tag, ";").  An empty rule
\* is skipped; break leaves the switch and continue (in the Url case) ends
\* the iteration, and both go on with the next rule.
matchRules(errors, rules, field, fieldValue) ==
    IF rules = <<>> THEN [errors |-> errors, panicked |-> FALSE]
    ELSE IF Len(Head(rules)) = 0
    THEN matchRules(errors, Tail(rules), field, fieldValue)
    ELSE nextRule(matchRule(errors, Head(rules), field, fieldValue),
                  Tail(rules), field, fieldValue)

RECURSIVE validateFrom(_, _, _, _)
\* binding.go:219-223: the recursion into a nested or embedded struct, or a
\* non-nil pointer to one.
validateNested(errors, field, fieldValue) ==
    IF Kind(field.Type) = "struct"
    THEN validateFrom(errors, field.Type, fieldValue, 1)
    ELSE IF /\ Kind(field.Type) = "ptr"
            /\ ~DeepEqual(Zero(field.Type), fieldValue)
            /\ Kind(Elem(field.Type)) = "struct"
    THEN validateFrom(errors, Elem(field.Type), fieldValue[1], 1)
    ELSE [errors |-> errors, panicked |-> FALSE]

\* The rest of validateStruct's loop after the rules of field i gave r.
nextField(r, T, val, i) ==
    IF r.panicked THEN r ELSE validateFrom(r.errors, T, val, i + 1)

\* binding.go:226: the rules of field i, after the recursion gave nested.
fieldRules(nested, T, val, i) ==
    IF nested.panicked THEN nested
    ELSE nextField(matchRules(nested.errors, Split(Fields(T)[i].binding, ";"),
                              Fields(T)[i], val[i]),
                   T, val, i)

\* validateStruct's loop from field i on.  val comes from reflect.ValueOf of
\* an interface value, so a field can be read (CanInterface) exactly when it
\* is exported.
validateFrom(errors, T, val, i) ==
    IF i > NumField(T) THEN [errors |-> errors, panicked |-> FALSE]
    ELSE IF Fields(T)[i].form = "-" \/ ~Fields(T)[i].Exported
    THEN validateFrom(errors, T, val, i + 1)
    ELSE fieldRules(validateNested(errors, Fields(T)[i], val[i]), T, val, i)

\* validateStruct(errors, obj) for obj of type T (a struct, or a pointer to
\* one, which is dereferenced first).
validateStruct(errors, T, obj) ==
    IF Kind(T) = "ptr" THEN validateFrom(errors, Elem(T), obj[1], 1)
    ELSE validateFrom(errors, T, obj, 1)

\* Whether a value of type T implements Validator: Post declares Validate,
\* BlogPost gets it promoted from the embedded Post, and the pointer types
\* have the methods of their base types.
IsValidator(T) == T \in {"Post", "BlogPost", "*Post", "*BlogPost"}

\* (p Post) Validate(ctx, errs): the receiver is the Post itself or the Post
\* embedded in the BlogPost.
HookValidate(T, obj, errs) ==
    LET v == IF Kind(T) = "ptr" THEN obj[1] ELSE obj
        p == IF T \in {"BlogPost", "*BlogPost"} THEN v[1] ELSE v
    IN  IF ByteLen(p[1]) < 10
        THEN Append(errs, Error(<<"title">>, "LengthError", "Life is too short"))
        ELSE errs

\* binding.go:176-178 and 182-184: the hook of a value, run on the list r
\* the structural rules gave.
runHook(r, T, e) ==
    IF r.panicked THEN r
    ELSE IF IsValidator(T)
    THEN [errors |-> HookValidate(T, e, r.errors), panicked |-> FALSE]
    ELSE r

\* binding.go:175-178 and 181-184: the structural rules of one value, then
\* its hook.
validateOne(errors, T, e) == runHook(validateStruct(errors, T, e), T, e)

RECURSIVE validateElems(_, _, _, _)
\* Faulty variant of nextElem: each element starts from an empty list.
nextElem_Reset(r, T, elems, i) ==
    IF r.panicked THEN r ELSE validateElems(<<>>, T, elems, i + 1)

\* binding.go:173-179: the next turn of the loop, after element i gave r.
nextElem(r, T, elems, i) ==
    IF r.panicked THEN r ELSE validateElems(r.errors, T, elems, i + 1)

\* binding.go:173-179: the loop over the elements of a slice or array.
validateElems(errors, T, elems, i) ==
    IF i > Len(elems) THEN [errors |-> errors, panicked |-> FALSE]
    ELSE nextElem(validateOne(errors, T, elems[i]), T, elems, i)

\* The handler Validate(obj) returns, for obj of type T: the Errors it maps
\* to the context.
Validate(T, obj) ==
    LET ptr == Kind(T) = "ptr"
        vt  == IF ptr THEN Elem(T) ELSE T
        v   == IF ptr THEN obj[1] ELSE obj
    IN  IF Kind(vt) = "slice"
        THEN validateElems(<<>>, Elem(vt), v.elems, 1)
        ELSE validateOne(<<>>, T, obj)

(***************************************************************************)
(* The handlers.  A handler's outcome: whether it panicked, the Errors it  *)
(* mapped to the context (errorsMapped, errors), the Bound Value it mapped *)
(* (<<>> when none was mapped), and the handlers it invoked, in order.     *)
(***************************************************************************)
Panicked(inv) ==
    [panicked |-> TRUE, errorsMapped |-> FALSE, errors |-> <<>>, obj |-> <<>>,
     invoked |-> inv]

\* reflect.PtrTo / reflect.New(T).Type()
PtrTo(T) ==
    CASE T = "Post" -> "*Post"
      [] T = "Person" -> "*Person"
      [] T = "BlogPost" -> "*BlogPost"
      [] T = "EmbedPerson" -> "*EmbedPerson"
      [] T = "SadForm" -> "*SadForm"
      [] T = "Settings" -> "*Settings"
      [] T = "Broken" -> "*Broken"

\* ensureNotPointer(obj): does it return (it panics on a pointer).
ensureNotPointer(T) == Kind(T) # "ptr"

\* Faulty variant of mapBoth: the list of Validate put before the
\* deserialization errors.
mapBoth_ValidationFirst(v, val, errors, inv) ==
    IF v.panicked THEN Panicked(Append(inv, "Validate"))
    ELSE [panicked |-> FALSE, errorsMapped |-> TRUE,
          errors |-> v.errors \o errors, obj |-> <<val>>,
          invoked |-> Append(inv, "Validate")]

\* validateAndMap(obj, ctx, errors): obj is the pointer reflect.New gave, val
\* the struct it points to.  Validate maps its own list, which is appended
\* to the deserialization errors; then the list and the struct are mapped.
mapBoth(v, val, errors, inv) ==
    IF v.panicked THEN Panicked(Append(inv, "Validate"))
    ELSE [panicked |-> FALSE, errorsMapped |-> TRUE,
          errors |-> errors \o v.errors, obj |-> <<val>>,
          invoked |-> Append(inv, "Validate")]

validateAndMap(T, val, errors, inv) ==
    mapBoth(Validate(PtrTo(T), <<val>>), val, errors, inv)

\* binding.go:104-105 and 133-134: validateAndMap on what mapForm gave.
afterMapForm(m, T, errors, inv) ==
    IF m.panicked THEN Panicked(inv) ELSE validateAndMap(T, m.val, errors, inv)

ParseErrors(failed, message) ==
    IF failed THEN Add(<<>>, <<>>, DeserializationError, message) ELSE <<>>

EmptyMap == <<>>

\* Faulty variant of Form: the list of the request before is carried over
\* instead of a fresh one.
Form_Shared(T, r) ==
    IF ~ensureNotPointer(T) THEN Panicked(<<"Form">>)
    ELSE afterMapForm(mapForm(T, Zero(T), r.Form, EmptyMap,
                              ParseErrors(r.ParseErr, "parse error")),
                      T, ctxErrors.list \o ParseErrors(r.ParseErr, "parse error"),
                      <<"Form">>)

\* The handler Form(formStruct) returns.  mapForm gets the list by value:
\* what it records never reaches the list passed on to validateAndMap.
Form(T, r) ==
    IF ~ensureNotPointer(T) THEN Panicked(<<"Form">>)
    ELSE afterMapForm(mapForm(T, Zero(T), r.Form, EmptyMap,
                              ParseErrors(r.ParseErr, "parse error")),
                      T, ParseErrors(r.ParseErr, "parse error"), <<"Form">>)

\* The handler MultipartForm(formStruct) returns.  r.Multipart is what the
\* request holds and how reading it ends:
\*   preset     ctx.Req.MultipartForm was parsed before (form)
\*   readerErr  ctx.Req.MultipartReader() fails
\*   readErr    multipartReader.ReadForm fails, giving a nil form
\*   read       ReadForm succeeds (form)
\* A nil ctx.Req.MultipartForm is dereferenced at binding.go:133.
MultipartForm(T, r) ==
    IF ~ensureNotPointer(T) THEN Panicked(<<"MultipartForm">>)
    ELSE IF r.Multipart.kind \in {"readerErr", "readErr"}
    THEN Panicked(<<"MultipartForm">>)
    ELSE afterMapForm(mapForm(T, Zero(T), r.Multipart.Value, r.Multipart.File,
                              ParseErrors(FALSE, "multipart error")),
                      T, ParseErrors(FALSE, "multipart error"), <<"MultipartForm">>)

\* The handler Json(jsonStruct) returns.  The decoding is encoding/json's:
\* r.Body is "nil" (no body) or the decoder's outcome, the value it left in
\* the struct and whether it reported an error other than io.EOF.
Json(T, r) ==
    IF ~ensureNotPointer(T) THEN Panicked(<<"Json">>)
    ELSE validateAndMap(T, IF r.Body.kind # "nil" THEN r.Body.decoded ELSE Zero(T),
                        ParseErrors(r.Body.kind # "nil" /\ r.Body.err, "decode error"),
                        <<"Json">>)

sFormUrlencoded ==
    <<"f", "o", "r", "m", "-", "u", "r", "l", "e", "n", "c", "o", "d", "e", "d">>

sMultipartFormData ==
    <<"m", "u", "l", "t", "i", "p", "a", "r", "t", "/",
      "f", "o", "r", "m", "-", "d", "a", "t", "a">>

sJson == <<"j", "s", "o", "n">>

\* Faulty variant of Strategy: a content type is required of POST alone.
Strategy_PostOnly(method, contentType) ==
    IF method = "POST" \/ contentType # <<>>
    THEN IF Contains(contentType, sFormUrlencoded) THEN "Form"
         ELSE IF Contains(contentType, sMultipartFormData) THEN "MultipartForm"
         ELSE IF Contains(contentType, sJson) THEN "Json"
         ELSE ""
    ELSE "Form"

\* The strategy bind chooses: "Form", "MultipartForm", "Json", or "" when it
\* maps a content-type error instead (binding.go:35-53).
Strategy(method, contentType) ==
    IF method = "POST" \/ method = "PUT" \/ contentType # <<>>
    THEN IF Contains(contentType, sFormUrlencoded) THEN "Form"
         ELSE IF Contains(contentType, sMultipartFormData) THEN "MultipartForm"
         ELSE IF Contains(contentType, sJson) THEN "Json"
         ELSE ""
    ELSE "Form"

\* ctx.Invoke of the handler named.
Invoke(name, T, r) ==
    CASE name = "Form" -> Form(T, r)
      [] name = "MultipartForm" -> MultipartForm(T, r)
      [] name = "Json" -> Json(T, r)

\* bind(ctx, obj, ifacePtr...)
bind(T, r) ==
    IF Strategy(r.Method, r.ContentType) # ""
    THEN Invoke(Strategy(r.Method, r.ContentType), T, r)
    ELSE [panicked |-> FALSE, errorsMapped |-> TRUE,
          errors |-> IF r.ContentType = <<>>
                     THEN Add(<<>>, <<>>, ContentTypeError, "Empty Content-Type")
                     ELSE Add(<<>>, <<>>, ContentTypeError,
                              "Unsupported Content-Type"),
          obj |-> <<>>, invoked |-> <<>>]

StatusBadRequest == 400

StatusUnsupportedMediaType == 415

StatusUnprocessableEntity == 422

\* json.Marshal(errs): one object per error, in order.
Marshal(errs) ==
    [i \in 1..Len(errs) |->
        [fieldNames |-> errs[i].FieldNames,
         classification |-> errs[i].Classification,
         message |-> errs[i].Message]]

NoResponse == [written |-> FALSE, status |-> 0, contentType |-> "", body |-> <<>>]

\* Faulty variant of ErrorHandler: the two statuses exchanged.
ErrorHandler_Swapped(errs, rsp) ==
    IF Len(errs) > 0
    THEN [written |-> TRUE,
          status |-> IF Has(errs, DeserializationError)
                     THEN StatusUnsupportedMediaType
                     ELSE IF Has(errs, ContentTypeError) THEN StatusBadRequest
                     ELSE StatusUnprocessableEntity,
          contentType |-> "application/json; charset=utf-8",
          body |-> Marshal(errs)]
    ELSE rsp

\* ErrorHandler(errs, resp): the response afterwards.
ErrorHandler(errs, rsp) ==
    IF Len(errs) > 0
    THEN [written |-> TRUE,
          status |-> IF Has(errs, DeserializationError) THEN StatusBadRequest
                     ELSE IF Has(errs, ContentTypeError)
                     THEN StatusUnsupportedMediaType
                     ELSE StatusUnprocessableEntity,
          contentType |-> "application/json; charset=utf-8",
          body |-> Marshal(errs)]
    ELSE rsp

(***************************************************************************)
(* Inputs: raw values, payloads, requests, in-memory values                *)
(***************************************************************************)
\* The largest size of a payload: each key counts for the number of its
\* values or file handles, and for one when it has none.
MaxForm == 2

\* The largest number of elements of a validated list.
MaxList == 2

\* The largest number of elements of a slice field of a validated value.
MaxElems == 3

sHi == <<"H", "i">>

sLongTitle == <<"L", "o", "n", "g", " ", "t", "i", "t", "l", "e", "!">>

sTooShort == <<"T", "o", "o", " ", "s", "h", "o", "r", "t">>

sUrl == <<"h", "t", "t", "p", ":", "/", "/", "a", ".", "b">>

sMail == <<"a", "@", "b", ".", "c">>

\* The raw strings a key of a payload may carry, for each target schema.
RawVals(T) ==
    CASE T = "BlogPost" -> {<<>>, <<"1">>, <<"2">>, <<"x">>}
      [] T = "EmbedPerson" -> {<<>>, <<"A", "l">>}
      [] T = "Settings" -> {<<>>, <<"1">>, <<"3", "0", "0">>, <<"o", "n">>,
                            <<"0">>}

\* The keys a payload may carry: keys of the schema's fields (the skip
\* marker and the unexported field's key among them) in the value map, and
\* keys of file, slice-of-file and other fields in the file map.
ValueKeys(T) ==
    CASE T = "BlogPost" -> <<"title", "id", "rating", "name", "-", "unexported",
                             "picture">>
      [] T = "EmbedPerson" -> <<"name", "email">>
      [] T = "Settings" -> <<"level", "count", "active", "ratio", "score", "flag">>

FileKeys(T) ==
    CASE T = "BlogPost" -> <<"headerImage", "picture", "id">>
      [] T = "EmbedPerson" -> <<>>
      [] T = "Settings" -> <<>>

\* File handles: pointers to multipart.FileHeader values.
FileHandles == {<<<<<<"a">>>>>>, <<<<<<"b">>>>>>}

RECURSIVE SeqsUpTo(_, _)
\* The sequences over S of length at most n.
SeqsUpTo(S, n) ==
    IF n = 0 THEN {<<>>}
    ELSE LET shorter == SeqsUpTo(S, n - 1)
         IN  shorter \cup {Append(q, x) : q \in {r \in shorter : Len(r) = n - 1},
                                          x \in S}

Cost(q) == IF Len(q) = 0 THEN 1 ELSE Len(q)

RECURSIVE MapsOfSize(_, _, _, _)
\* The maps over the keys keys[i..] with values over S, of size at most n.
MapsOfSize(keys, i, S, n) ==
    IF i > Len(keys) \/ n = 0 THEN {EmptyMap}
    ELSE MapsOfSize(keys, i + 1, S, n)
         \cup UNION {{(keys[i] :> q) @@ m : m \in MapsOfSize(keys, i + 1, S, n - Cost(q))} :
                        q \in SeqsUpTo(S, n)}

RECURSIVE MapSize(_)
MapSize(m) ==
    IF DOMAIN m = {} THEN 0
    ELSE LET k == CHOOSE x \in DOMAIN m : TRUE
         IN  Cost(m[k]) + MapSize([y \in DOMAIN m \ {k} |-> m[y]])

\* The payloads bound to target T: a value map and a file map of total size
\* at most MaxForm.
Payloads(T) ==
    UNION {{[Value |-> v, File |-> f] :
                f \in MapsOfSize(FileKeys(T), 1, FileHandles, MaxForm - MapSize(v))} :
           v \in MapsOfSize(ValueKeys(T), 1, RawVals(T), MaxForm)}

BindTargets == {"BlogPost", "EmbedPerson", "Settings"}

sCTForm ==
    <<"a", "p", "p", "l", "i", "c", "a", "t", "i", "o", "n", "/", "x", "-",
      "w", "w", "w", "-">> \o sFormUrlencoded

sCTMultipart == sMultipartFormData \o <<";", " ", "b", "o", "u", "n", "d", "a", "r", "y", "=", "x">>

sCTJson == <<"a", "p", "p", "l", "i", "c", "a", "t", "i", "o", "n", "/">> \o sJson

sCTBogus == <<"B", "o", "G", "u", "S">>

Methods == {"GET", "POST", "PUT", "PATCH"}

ContentTypes == {<<>>, sCTForm, sCTMultipart, sCTJson, sCTBogus}

NoBody == [kind |-> "nil", err |-> FALSE, decoded |-> <<>>]

Request(method, ct, form, parseErr, mp, body) ==
    [Method |-> method, ContentType |-> ct, Form |-> form, ParseErr |-> parseErr,
     Multipart |-> mp, Body |-> body]

NoData == [T |-> "", val |-> <<>>]

sAl == <<"A", "l">>

PostVals == {<<t, <<>>>> : t \in {<<>>, sTooShort, sLongTitle}}

PersonVals == {<<n, <<>>>> : n \in {<<>>, sAl}}

\* BlogPost values: every field that validateStruct reads takes a zero and
\* a non-zero value, the slice also the empty non-nil one.
BlogPostVals ==
    {<<p, id, ig, r, a, c, h, NilSlice, <<>>>> :
        p \in PostVals, id \in {0, 1}, ig \in {<<>>, <<"x">>},
        r \in {NilSlice, MakeSlice(<<>>), MakeSlice(<<1>>)},
        a \in PersonVals, c \in {<<>>} \cup {<<x>> : x \in PersonVals},
        h \in {<<>>, <<<<<<"a">>>>>>}}

BoolSlices == {NilSlice} \cup {MakeSlice(q) : q \in SeqsUpTo({TRUE, FALSE}, MaxElems)}

SettingsVals ==
    {<<0, c, FALSE, <<0, 0>>, <<0, 0>>, n, h, f>> :
        c \in {0, 3},
        n \in {<<>>, <<"a">>, <<"a", "b">>, <<"é", "ü">>, <<"é", "ü", "é">>,
               <<"a", "b", "c", "d">>},
        h \in {<<>>, <<"x">>, sUrl},
        f \in BoolSlices}

StringSlices == {NilSlice} \cup {MakeSlice([i \in 1..n |-> <<"1">>]) : n \in {1, 2, 5}}

TeamVals == {<<l, n>> : l \in PersonVals, n \in {0, 1}}

SadFormVals ==
    {<<ad, add, mn, mns, mx, mxs, em, url, <<>>>> :
        ad \in {<<",">>, <<"1", "-", "a">>},
        add \in {<<",">>, <<"1", ".", "a">>},
        mn \in {<<",">>, <<"1", "2", "3", "4", "5">>},
        mns \in {MakeSlice(<<<<",">>, <<",">>>>),
                 MakeSlice([i \in 1..5 |-> <<"1">>])},
        mx \in {<<",", ",">>, <<"1">>},
        mxs \in {MakeSlice(<<<<",">>, <<",">>>>), MakeSlice(<<<<"1">>>>)},
        em \in {<<",">>, sMail},
        url \in {<<",">>, sUrl}}

\* The BlogPost values of validationTestCases (part_000:28-218), with
\* shorter strings of the same kind.
tcNoErrors == <<<<sLongTitle, <<>>>>, 1, <<>>, NilSlice, <<sAl, <<>>>>, <<>>, <<>>, NilSlice, <<>>>>

tcIdRequired == [tcNoErrors EXCEPT ![2] = 0]

tcTitleRequired == [tcNoErrors EXCEPT ![1] = <<<<>>, <<>>>>]

tcNameRequired == [tcNoErrors EXCEPT ![5] = <<<<>>, <<>>>>]

tcCoauthorEmpty == [tcNoErrors EXCEPT ![6] = <<<<<<>>, <<>>>>>>]

tcTooShort == [tcNoErrors EXCEPT ![1] = <<sTooShort, <<>>>>]

ListElems(T) ==
    CASE T = "Post" -> PostVals
      [] T = "BlogPost" -> {tcNoErrors, tcIdRequired, tcTitleRequired,
                            tcCoauthorEmpty, tcTooShort}
      [] T = "SadForm" ->
            {<<<<",">>, <<",">>, <<",">>, MakeSlice(<<<<",">>, <<",">>>>),
               <<",", ",">>, MakeSlice(<<<<",">>, <<",">>>>), <<",">>, <<",">>, <<>>>>,
             <<<<"1", "-", "a">>, <<"1", ".", "a">>, <<"1", "2", "3", "4", "5">>,
               MakeSlice([i \in 1..5 |-> <<"1">>]), <<"1">>,
               MakeSlice(<<<<"1">>>>), sMail, sUrl, <<>>>>}

SliceOf(T) ==
    CASE T = "Post" -> "[]Post"
      [] T = "BlogPost" -> "[]BlogPost"
      [] T = "SadForm" -> "[]SadForm"

\* The lists handed to Validate: the lists of at most MaxList elements.
Lists(T) == {MakeSlice(q) : q \in SeqsUpTo(ListElems(T), MaxList)}

(***************************************************************************)
(* The state machine: one request (or one in-memory value), then the       *)
(* handlers run on it.                                                     *)
(***************************************************************************)
Start(t, r, d) ==
    /\ pc = "idle"
    /\ handler = ""
    /\ target = t
    /\ req = r
    /\ data = d
    /\ ctxErrors = [mapped |-> FALSE, list |-> <<>>]
    /\ ctxObj = <<>>
    /\ resp = NoResponse
    /\ invoked = <<>>

\* The effect of a handler with outcome o on the context.
Finish(name, o) ==
    /\ pc' = IF o.panicked THEN "panic" ELSE "done"
    /\ handler' = name
    /\ ctxErrors' = [mapped |-> o.errorsMapped, list |-> o.errors]
    /\ ctxObj' = o.obj
    /\ invoked' = o.invoked
    /\ UNCHANGED <<target, req, data>>

\* m.Use(Form(obj))
DoForm ==
    /\ pc = "idle" /\ data = NoData
    /\ Finish("Form", Invoke("Form", target, req))
    /\ UNCHANGED resp

\* m.Use(MultipartForm(obj))
DoMultipartForm ==
    /\ pc = "idle" /\ data = NoData
    /\ Finish("MultipartForm", Invoke("MultipartForm", target, req))
    /\ UNCHANGED resp

\* m.Use(Json(obj))
DoJson ==
    /\ pc = "idle" /\ data = NoData
    /\ Finish("Json", Invoke("Json", target, req))
    /\ UNCHANGED resp

\* m.Use(BindIgnErr(obj))
DoBindIgnErr ==
    /\ pc = "idle" /\ data = NoData
    /\ Finish("BindIgnErr", bind(target, req))
    /\ UNCHANGED resp

\* binding.go:66-67: after bind gave o, ErrorHandler runs on the Errors it
\* mapped (a panic of bind ends the handler before).
BindThenHandle(o) ==
    /\ Finish("Bind", [o EXCEPT !.invoked =
                         IF o.panicked THEN @ ELSE Append(@, "ErrorHandler")])
    /\ resp' = IF o.panicked THEN resp ELSE ErrorHandler(o.errors, resp)

\* m.Use(Bind(obj)): bind, then ErrorHandler on the Errors it mapped.
DoBind ==
    /\ pc = "idle" /\ data = NoData
    /\ BindThenHandle(bind(target, req))

\* binding.go:186: Validate maps the list v it made.
ValidateOutcome(v) ==
    [panicked |-> v.panicked, errorsMapped |-> ~v.panicked,
     errors |-> v.errors, obj |-> <<>>, invoked |-> <<"Validate">>]

\* m.Use(Validate(data))
DoValidate ==
    /\ pc = "idle" /\ data # NoData
    /\ Finish("Validate", ValidateOutcome(Validate(data.T, data.val)))
    /\ UNCHANGED resp

\* ErrorHandler used as a handler of its own, after a handler that mapped
\* Errors.
DoErrorHandler ==
    /\ pc = "done" /\ ctxErrors.mapped
    /\ "ErrorHandler" \notin {invoked[i] : i \in 1..Len(invoked)}
    /\ resp' = ErrorHandler(ctxErrors.list, resp)
    /\ invoked' = Append(invoked, "ErrorHandler")
    /\ UNCHANGED <<pc, handler, target, req, data, ctxErrors, ctxObj>>

\* The start of a run of Validate on the in-memory value v of type T.
StartValidate(T, v) ==
    Start("", Request("POST", <<>>, EmptyMap, FALSE,
                      [kind |-> "preset", Value |-> EmptyMap, File |-> EmptyMap],
                      NoBody), [T |-> T, val |-> v])

\* Requests of the dispatch specification.
DispatchForms ==
    {EmptyMap,
     ("title" :> <<sLongTitle>>) @@ ("id" :> <<<<"1">>>>) @@ ("name" :> <<sAl>>),
     ("title" :> <<sHi>>) @@ ("id" :> <<<<"x">>>>)}

MultipartOutcomes(form) ==
    {[kind |-> k, Value |-> form, File |-> EmptyMap] : k \in {"preset", "read"}}
    \cup {[kind |-> k, Value |-> EmptyMap, File |-> EmptyMap] :
             k \in {"readerErr", "readErr"}}

DispatchTargets == {"Post", "BlogPost", "*Post"}

Bodies(T) ==
    IF Kind(T) = "ptr" THEN {NoBody}
    ELSE {NoBody,
          [kind |-> "read", err |-> TRUE, decoded |-> Zero(T)],
          [kind |-> "read", err |-> FALSE,
           decoded |-> IF T = "Post" THEN <<sLongTitle, <<>>>> ELSE tcNoErrors]}

DispatchRequests(T) ==
    UNION {{Request(m, ct, f, pe, mp, b) :
                m \in Methods, ct \in ContentTypes, pe \in BOOLEAN,
                mp \in MultipartOutcomes(f), b \in Bodies(T)} :
           f \in DispatchForms}

Init ==
    \/ \E t \in DispatchTargets : \E r \in DispatchRequests(t) : Start(t, r, NoData)
    \/ StartValidate("BlogPost", tcIdRequired)
    \/ \E v \in TeamVals : StartValidate("Team", v)
    \/ StartValidate("[]BlogPost", MakeSlice(<<tcNoErrors, tcTooShort>>))

Next ==
    \/ DoBind
    \/ DoBindIgnErr
    \/ DoForm
    \/ DoMultipartForm
    \/ DoJson
    \/ DoValidate
    \/ DoErrorHandler

Spec == Init /\ [][Next]_vars

\* Binding specification: every payload of every bind target, bound by Form
\* and by MultipartForm.
BindRequest(p) ==
    Request("POST", sCTForm, p.Value, FALSE,
            [kind |-> "read", Value |-> p.Value, File |-> p.File], NoBody)

sNotABool == <<"n", "o", "t", "a", "b", "o", "o", "l">>

\* Payloads of the documented scenarios: a repeated key of three values for
\* a slice of integers, a boolean field bound from a word that is no boolean,
\* a scalar field bound from a key of three values.
ScenarioPayloads ==
    {[T |-> "BlogPost",
      p |-> [Value |-> ("rating" :> <<<<"1">>, <<"2">>, <<"3">>>>), File |-> EmptyMap]],
     [T |-> "Settings",
      p |-> [Value |-> ("active" :> <<sNotABool>>), File |-> EmptyMap]],
     [T |-> "Settings",
      p |-> [Value |-> ("level" :> <<<<"1">>, <<"3", "0", "0">>, <<"0">>>>),
             File |-> EmptyMap]]}

InitBind ==
    \/ \E t \in BindTargets : \E p \in Payloads(t) : Start(t, BindRequest(p), NoData)
    \/ \E s \in ScenarioPayloads : Start(s.T, BindRequest(s.p), NoData)

NextBind ==
    \/ DoForm
    \/ DoMultipartForm

SpecBind == InitBind /\ [][NextBind]_vars

\* The context after the handler ran once more, with outcome o: what the
\* second run maps replaces what the first mapped.
RunAgain(o) ==
    /\ pc' = IF o.panicked THEN "panic" ELSE "done"
    /\ ctxErrors' = [mapped |-> o.errorsMapped, list |-> o.errors]
    /\ ctxObj' = o.obj
    /\ invoked' = invoked \o o.invoked
    /\ UNCHANGED <<handler, target, req, data, resp>>

\* A second request with the same schema and the same raw maps, handled by
\* the same decode handler (binding.go:94 and 117: each run binds a struct
\* fresh from reflect.New and starts from its own Errors).
DoAgain ==
    /\ pc = "done" /\ handler \in {"Form", "MultipartForm"}
    /\ Len(invoked) <= 2
    /\ RunAgain(Invoke(handler, target, req))

\* Repetition specification: the smaller payloads and the scenarios, each
\* bound once and then once more.
InitRepeat ==
    \/ \E t \in BindTargets : \E p \in Payloads(t) :
          /\ MapSize(p.Value) + MapSize(p.File) < MaxForm
          /\ Start(t, BindRequest(p), NoData)
    \/ \E s \in ScenarioPayloads : Start(s.T, BindRequest(s.p), NoData)

NextRepeat ==
    \/ DoForm
    \/ DoMultipartForm
    \/ DoAgain

SpecRepeat == InitRepeat /\ [][NextRepeat]_vars

\* Validation specification: Validate on single structs, on a pointer to a
\* struct and on lists of structs.
InitValidate ==
    \/ \E v \in BlogPostVals : StartValidate("BlogPost", v)
    \/ \E v \in SettingsVals : StartValidate("Settings", v)
    \/ \E v \in SadFormVals : StartValidate("SadForm", v)
    \/ \E v \in PostVals : StartValidate("*Post", <<v>>)
    \/ \E n \in {<<>>, sAl} : StartValidate("Broken", <<n>>)
    \/ \E v \in TeamVals : StartValidate("Team", v)
    \/ \E T \in {"Post", "BlogPost", "SadForm"} :
          \E v \in Lists(T) : StartValidate(SliceOf(T), v)

NextValidate == DoValidate

SpecValidate == InitValidate /\ [][NextValidate]_vars

(***************************************************************************)
(* Properties                                                              *)
(***************************************************************************)
\* The errors of list errs with the given classification and field path.
ErrorsAt(errs, class, path) ==
    {i \in 1..Len(errs) : errs[i].Classification = class /\ errs[i].FieldNames = path}

\* The raw form a decode handler read: the parsed form for Form, the value
\* part of the multipart form for MultipartForm.
RawForm == IF handler = "MultipartForm" THEN req.Multipart.Value ELSE req.Form

FormDecoded == pc = "done" /\ handler \in {"Form", "MultipartForm"}

RECURSIVE LeafFields(_)
\* The fields mapForm binds raw values to in a target of struct type T:
\* those of T, of its struct fields and of its embedded pointers, that are
\* not structs themselves and have a form key.
LeafFields(T) ==
    UNION {LET f == Fields(T)[i]
           IN  IF Kind(f.Type) = "struct" THEN LeafFields(f.Type)
               ELSE IF Kind(f.Type) = "ptr" /\ f.Anonymous
               THEN LeafFields(Elem(f.Type))
               ELSE IF f.form # "" /\ f.Exported THEN {f} ELSE {} :
           i \in 1..NumField(T)}

NumericKinds == IntKinds \cup UintKinds \cup {"bool", "float32", "float64"}

\* The classification the error of a failed coercion to kind k carries.
CoercionClass(k) ==
    IF k \in IntKinds \cup UintKinds THEN IntegerTypeError
    ELSE IF k = "bool" THEN BooleanTypeError
    ELSE FloatTypeError

\* Raw value raw cannot be coerced to kind k (the empty raw value stands
\* for zero, "on" for true).
CoercionFails(k, raw) ==
    /\ raw # <<>>
    /\ CASE k \in IntKinds -> ~ParseInt(raw).ok
         [] k \in UintKinds -> ~ParseUint(raw).ok
         [] k = "bool" -> raw # <<"o", "n">> /\ ~ParseBool(raw).ok
         [] OTHER -> ~ParseFloat(raw).ok

\* The bound fields of numeric kind whose first raw value fails coercion.
FailedCoercions ==
    {f \in LeafFields(target) :
        /\ f.Type \in NumericKinds
        /\ f.form \in DOMAIN RawForm
        /\ Len(RawForm[f.form]) >= 1
        /\ CoercionFails(f.Type, RawForm[f.form][1])}

\* C1: after binding, every integer, unsigned, boolean or floating field
\* whose raw value could not be coerced has exactly one error of the matching
\* type classification, with the field's form key as path, in the Error List
\* the handler mapped.
C1_CoercionErrorRecorded ==
    FormDecoded =>
        \A f \in FailedCoercions :
            Cardinality(ErrorsAt(ctxErrors.list, CoercionClass(f.Type), <<f.form>>)) = 1

RECURSIVE Visited(_, _, _)
\* The fields validateStruct visits in value val of struct type T from field
\* i on, each with its value: every exported field not ignored, and those of
\* its nested structs and non-nil pointers to structs.
Visited(T, val, i) ==
    IF i > NumField(T) THEN <<>>
    ELSE LET f == Fields(T)[i]
         IN  IF f.form = "-" \/ ~f.Exported THEN Visited(T, val, i + 1)
             ELSE (IF Kind(f.Type) = "struct" THEN Visited(f.Type, val[i], 1)
                   ELSE IF Kind(f.Type) = "ptr" /\ val[i] # <<>>
                           /\ Kind(Elem(f.Type)) = "struct"
                   THEN Visited(Elem(f.Type), val[i][1], 1)
                   ELSE <<>>)
                  \o <<[f |-> f, v |-> val[i]]>>
                  \o Visited(T, val, i + 1)

\* Validate has run on one struct (or a pointer to one).
StructValidated ==
    pc = "done" /\ handler = "Validate" /\ Kind(data.T) \in {"struct", "ptr"}

\* The fields visited in the validated struct.
VisitedData ==
    IF Kind(data.T) = "ptr" THEN Visited(Elem(data.T), data.val[1], 1)
    ELSE Visited(data.T, data.val, 1)

\* Field f declares the rule.
HasRule(f, rule) ==
    \E k \in 1..Len(Split(f.binding, ";")) : Split(f.binding, ";")[k] = rule

\* The visited fields named n that declare Required and hold their zero value.
ZeroRequired(vis, n) ==
    {j \in 1..Len(vis) : /\ vis[j].f.Name = n
                         /\ HasRule(vis[j].f, tagRequired)
                         /\ vis[j].v = Zero(vis[j].f.Type)}

\* C2: validation records exactly one "required" error for each visited field
\* that declares Required and holds the zero value of its type, and none for
\* any other field (errors are told apart by the field they name; fields of
\* one name in different structs are counted together).
C2_RequiredOncePerZeroField ==
    StructValidated =>
        /\ \A k \in 1..Len(VisitedData) :
              Cardinality(ErrorsAt(ctxErrors.list, RequiredError,
                                   <<VisitedData[k].f.Name>>))
                  = Cardinality(ZeroRequired(VisitedData, VisitedData[k].f.Name))
        /\ \A i \in 1..Len(ctxErrors.list) :
              ctxErrors.list[i].Classification = RequiredError
                  => \E k \in 1..Len(VisitedData) :
                        ctxErrors.list[i].FieldNames = <<VisitedData[k].f.Name>>

\* A Required field held its zero value and another one did not.
C2_Witness ==
    /\ StructValidated
    /\ data.T = "BlogPost"
    /\ Cardinality(ErrorsAt(ctxErrors.list, RequiredError, <<"Id">>)) = 1
    /\ ErrorsAt(ctxErrors.list, RequiredError, <<"Name">>) = {}
    /\ data.val[6] # <<>>

RuleClasses ==
    {RequiredError, AlphaDashError, AlphaDashDotError, MinSizeError, MaxSizeError,
     EmailError, UrlError}

\* C3: every error a validation rule produces carries as its field path the
\* form key of the field that failed; a BlogPost whose id is zero gives
\* exactly the one error {["id"], "required"}.
C3_RuleErrorPathIsFormKey ==
    StructValidated =>
        /\ \A i \in 1..Len(ctxErrors.list) :
              ctxErrors.list[i].Classification \in RuleClasses
                  => \E k \in 1..Len(VisitedData) :
                        /\ VisitedData[k].f.form # ""
                        /\ ctxErrors.list[i].FieldNames = <<VisitedData[k].f.form>>
        /\ (data.T = "BlogPost" /\ data.val = tcIdRequired)
              => /\ Len(ctxErrors.list) = 1
                 /\ ctxErrors.list[1].FieldNames = <<"id">>
                 /\ ctxErrors.list[1].Classification = RequiredError

\* The first raw value of key k in the form read, empty when the key is
\* missing.
RawOf(k) == IF k \in DOMAIN RawForm THEN RawForm[k][1] ELSE <<>>

\* C4: after binding a schema with an embedded pointer to a substructure,
\* the pointer is nil if and only if every promoted inner field resolved to
\* its zero value; otherwise it points to the substructure holding exactly
\* the inner fields that were bound.
C4_EmbeddedPointerNilIffZero ==
    (FormDecoded /\ target = "EmbedPerson") =>
        /\ (ctxObj[1][1] = <<>>) <=> (RawOf("name") = <<>> /\ RawOf("email") = <<>>)
        /\ ctxObj[1][1] # <<>> => ctxObj[1][1][1] = <<RawOf("name"), RawOf("email")>>

\* The embedded pointer is present with one inner field filled, the other
\* at zero.
C4_Witness ==
    /\ FormDecoded /\ target = "EmbedPerson"
    /\ ctxObj[1][1] # <<>>
    /\ ctxObj[1][1][1][1] # <<>>
    /\ ctxObj[1][1][1][2] = <<>>

\* The size a MinSize/MaxSize rule measures: code points of a string,
\* elements of a sequence.
SizeOf(f, v) == IF f.Type = "string" THEN Len(v) ELSE Len(v.elems)

Sized(f) == f.Type = "string" \/ Kind(f.Type) = "slice"

\* The rules of field f that begin with prefix.
RulesWith(f, prefix) ==
    {k \in 1..Len(Split(f.binding, ";")) : HasPrefix(Split(f.binding, ";")[k], prefix)}

RuleLimit(f, k) == Atoi(RuleArg(Split(f.binding, ";")[k])).val

\* C5: a field with rule MinSize(M) holding N code points (a string) or N
\* elements (a sequence) has one MinSize error when N < M and none
\* otherwise; with rule MaxSize(M), one MaxSize error when N > M and none
\* otherwise.
C5_SizeRules ==
    StructValidated =>
        \A i \in 1..Len(VisitedData) :
            LET f == VisitedData[i].f
                v == VisitedData[i].v
            IN  /\ \A k \in RulesWith(f, tagMinSize) :
                      Cardinality(ErrorsAt(ctxErrors.list, MinSizeError, <<f.Name>>))
                          = IF Sized(f) /\ SizeOf(f, v) < RuleLimit(f, k) THEN 1 ELSE 0
                /\ \A k \in RulesWith(f, tagMaxSize) :
                      Cardinality(ErrorsAt(ctxErrors.list, MaxSizeError, <<f.Name>>))
                          = IF Sized(f) /\ SizeOf(f, v) > RuleLimit(f, k) THEN 1 ELSE 0

\* A string of three two-byte code points passed MaxSize(3) while a sequence
\* of one element failed MinSize(2).
C5_Witness ==
    /\ StructValidated /\ data.T = "Settings"
    /\ data.val[6] = <<"é", "ü", "é">>
    /\ ErrorsAt(ctxErrors.list, MaxSizeError, <<"Nick">>) = {}
    /\ Len(data.val[8].elems) = 1
    /\ Cardinality(ErrorsAt(ctxErrors.list, MinSizeError, <<"Flags">>)) = 1

RECURSIVE EachOnItsOwn(_, _, _)
\* The Error Lists of Validate on each of elems[i..] alone, concatenated.
EachOnItsOwn(T, elems, i) ==
    IF i > Len(elems) THEN <<>>
    ELSE Validate(T, elems[i]).errors \o EachOnItsOwn(T, elems, i + 1)

ListValidated == pc = "done" /\ handler = "Validate" /\ Kind(data.T) = "slice"

\* C6: Validate on a sequence of values maps the concatenation, in order, of
\* the Error Lists that Validate gives for each element on its own.
C6_ListIsConcatenation ==
    ListValidated =>
        ctxErrors.list = EachOnItsOwn(Elem(data.T), data.val.elems, 1)

\* Two different elements, each of which fails validation on its own.
C6_Witness ==
    /\ ListValidated
    /\ Len(data.val.elems) = 2
    /\ data.val.elems[1] # data.val.elems[2]
    /\ Validate(Elem(data.T), data.val.elems[1]).errors # <<>>
    /\ Validate(Elem(data.T), data.val.elems[2]).errors # <<>>
    /\ Validate(Elem(data.T), data.val.elems[1]).errors
          # Validate(Elem(data.T), data.val.elems[2]).errors

PrimitiveKinds == NumericKinds \cup {"string"}

\* What coercion makes of raw value raw for a fresh field of kind k.
Coerced(k, raw) == setWithProperType(k, raw, Zero(k), "", <<>>).field

\* The fields of the target itself that are bound from key lists of at
\* least one value.
BoundFields ==
    {i \in 1..NumField(target) :
        /\ Fields(target)[i].Exported
        /\ Fields(target)[i].form \in DOMAIN RawForm
        /\ Len(RawForm[Fields(target)[i].form]) >= 1}

\* C7: a slice-of-primitive field whose key carries n >= 1 raw values is
\* bound to n elements, element i the coercion of raw value i; a primitive
\* field is bound to the coercion of the first raw value of its key.
C7_MultiValue ==
    FormDecoded =>
        \A i \in BoundFields :
            LET f   == Fields(target)[i]
                raw == RawForm[f.form]
            IN  /\ (Kind(f.Type) = "slice" /\ Elem(f.Type) \in PrimitiveKinds)
                      => /\ ~ctxObj[1][i].isNil
                         /\ Len(ctxObj[1][i].elems) = Len(raw)
                         /\ \A j \in 1..Len(raw) :
                               ctxObj[1][i].elems[j] = Coerced(Elem(f.Type), raw[j])
                /\ f.Type \in PrimitiveKinds => ctxObj[1][i] = Coerced(f.Type, raw[1])

\* rating=1&rating=2&rating=3 was bound to [1, 2, 3].
C7_Witness ==
    /\ FormDecoded /\ target = "BlogPost"
    /\ "rating" \in DOMAIN RawForm
    /\ RawForm["rating"] = <<<<"1">>, <<"2">>, <<"3">>>>
    /\ ctxObj[1][4].elems = <<1, 2, 3>>

\* C8: no handler run on a by-value schema root panics: binding and
\* validation complete whatever the raw maps, the rule strings and the
\* outcome of multipart parsing.
C8_NoPanicByValue ==
    pc = "panic" => (data = NoData /\ Kind(target) = "ptr")

\* ErrorHandler was the last handler to run.
ErrorHandlerRan ==
    pc = "done" /\ invoked # <<>> /\ invoked[Len(invoked)] = "ErrorHandler"

\* The body is the Error List, one entry per error, in order.
BodyIs(errs) ==
    /\ Len(resp.body) = Len(errs)
    /\ \A i \in 1..Len(errs) :
          /\ resp.body[i].fieldNames = errs[i].FieldNames
          /\ resp.body[i].classification = errs[i].Classification
          /\ resp.body[i].message = errs[i].Message

\* C9: after ErrorHandler ran on a non-empty Error List the response is
\* written with status 400 if an error is a deserialization error, else 415
\* if one is a content-type error, else 422, and the list as its body; on an
\* empty list nothing is written.
C9_DefaultFailurePolicy ==
    ErrorHandlerRan =>
        IF ctxErrors.list # <<>>
        THEN /\ resp.written
             /\ resp.status =
                   IF "deserialization" \in {ctxErrors.list[i].Classification :
                                                i \in 1..Len(ctxErrors.list)}
                   THEN 400
                   ELSE IF "content-type" \in {ctxErrors.list[i].Classification :
                                                  i \in 1..Len(ctxErrors.list)}
                   THEN 415
                   ELSE 422
             /\ BodyIs(ctxErrors.list)
        ELSE resp = NoResponse

\* A deserialization error among validation errors was answered with 400.
C9_Witness ==
    /\ ErrorHandlerRan
    /\ Has(ctxErrors.list, DeserializationError)
    /\ Has(ctxErrors.list, RequiredError)
    /\ resp.written /\ resp.status = 400

Dispatched == pc # "idle" /\ handler \in {"Bind", "BindIgnErr"}

Supported(ct) ==
    \/ Contains(ct, sFormUrlencoded)
    \/ Contains(ct, sMultipartFormData)
    \/ Contains(ct, sJson)

DecodeStrategies == {"Form", "MultipartForm", "Json"}

\* bind mapped one request-level content-type error and ran nothing else.
ShortCircuit ==
    /\ ctxErrors.mapped
    /\ Len(ctxErrors.list) = 1
    /\ ctxErrors.list[1].FieldNames = <<>>
    /\ ctxErrors.list[1].Classification = ContentTypeError
    /\ ctxObj = <<>>
    /\ \A i \in 1..Len(invoked) : invoked[i] \notin DecodeStrategies \cup {"Validate"}

\* bind invoked the decode strategy of content type ct and no other.
MatchingStrategy(ct) ==
    /\ invoked # <<>>
    /\ invoked[1] = IF Contains(ct, sFormUrlencoded) THEN "Form"
                    ELSE IF Contains(ct, sMultipartFormData) THEN "MultipartForm"
                    ELSE "Json"
    /\ \A i \in 2..Len(invoked) : invoked[i] \notin DecodeStrategies

StateChanging == {"POST", "PUT", "PATCH", "DELETE"}

\* C10 as stated: for every state-changing method, an empty or unsupported
\* content type ends in the single content-type error with nothing invoked,
\* and a supported content type invokes exactly its decode strategy.
C10_AnyStateChangingMethod ==
    Dispatched =>
        /\ (req.Method \in StateChanging /\ ~Supported(req.ContentType)) => ShortCircuit
        /\ Supported(req.ContentType) => MatchingStrategy(req.ContentType)

\* C10 as the code has it: an empty or unsupported content type ends in the
\* single content-type error for POST and PUT, and for any method when the
\* content type is not empty; every other method with an empty content type
\* is decoded as a form; a supported content type invokes exactly its decode
\* strategy.
C10_ContentDispatch ==
    Dispatched =>
        /\ (/\ ~Supported(req.ContentType)
            /\ (req.Method \in {"POST", "PUT"} \/ req.ContentType # <<>>))
              => ShortCircuit
        /\ (req.ContentType = <<>> /\ req.Method \notin {"POST", "PUT"})
              => MatchingStrategy(sFormUrlencoded)
        /\ Supported(req.ContentType) => MatchingStrategy(req.ContentType)

\* A PUT request without content type was short-circuited.
C10_Witness ==
    /\ Dispatched
    /\ req.Method = "PUT" /\ req.ContentType = <<>>
    /\ ShortCircuit

BoundAlone(k, raw) ==
    IF k \in NumericKinds /\ CoercionFails(k, raw) THEN Zero(k) ELSE Coerced(k, raw)

\* The fields of the target itself that mapForm may write from the value map.
OwnLeaves ==
    {i \in 1..NumField(target) :
        /\ Fields(target)[i].Exported
        /\ Fields(target)[i].form # ""
        /\ \/ Fields(target)[i].Type \in PrimitiveKinds
           \/ /\ Kind(Fields(target)[i].Type) = "slice"
              /\ Elem(Fields(target)[i].Type) \in PrimitiveKinds}

\* C12: a coercion failure touches no value but its own: the failing field
\* (or slice element) stays at zero, and every other field and every other
\* element of the slice holds what its own raw value alone determines,
\* whether it comes before or after the failure.
C12_FailureLeavesOthers ==
    FormDecoded =>
        \A i \in OwnLeaves :
            LET f == Fields(target)[i]
            IN  IF f.form \notin DOMAIN RawForm THEN ctxObj[1][i] = Zero(f.Type)
                ELSE IF f.Type \in PrimitiveKinds
                THEN ctxObj[1][i] = BoundAlone(f.Type, RawForm[f.form][1])
                ELSE /\ Len(ctxObj[1][i].elems) = Len(RawForm[f.form])
                     /\ \A j \in 1..Len(RawForm[f.form]) :
                           ctxObj[1][i].elems[j]
                               = BoundAlone(Elem(f.Type), RawForm[f.form][j])

\* The first element of a slice failed coercion and stayed zero, the second
\* was bound.
C12_Witness ==
    /\ FormDecoded /\ target = "Settings"
    /\ "flag" \in DOMAIN RawForm
    /\ RawForm["flag"] = <<<<"3", "0", "0">>, <<"1">>>>
    /\ ctxObj[1][8].elems = <<FALSE, TRUE>>

TrueLiterals ==
    {<<"1">>, <<"t">>, <<"T">>, <<"T", "R", "U", "E">>, <<"t", "r", "u", "e">>,
     <<"T", "r", "u", "e">>}

FalseLiterals ==
    {<<"0">>, <<"f">>, <<"F">>, <<"F", "A", "L", "S", "E">>,
     <<"f", "a", "l", "s", "e">>, <<"F", "a", "l", "s", "e">>}

\* What a boolean bound from raw value raw must hold when it was false
\* before, for the raw values the rule speaks of.
BoolRule(raw, bound) ==
    /\ raw = <<"o", "n">> => bound = TRUE
    /\ raw = <<>> => bound = FALSE
    /\ raw \in TrueLiterals => bound = TRUE
    /\ raw \in FalseLiterals =>
          /\ bound = FALSE
          /\ setWithProperType("bool", raw, TRUE, "active", <<>>)
                = [field |-> TRUE, errors |-> <<>>]

\* C13: a boolean field bound from "on" or from a literal that parses to
\* true is true; bound from the empty string it stays false; a literal that
\* parses to false writes nothing, so the field keeps the value it had; none
\* of these records an error.
C13_BooleanCoercion ==
    (FormDecoded /\ target = "Settings") =>
        /\ "active" \in DOMAIN RawForm =>
              /\ BoolRule(RawForm["active"][1], ctxObj[1][3])
              /\ RawForm["active"][1]
                    \in {<<"o", "n">>, <<>>} \cup TrueLiterals \cup FalseLiterals
                    => ErrorsAt(ctxErrors.list, BooleanTypeError, <<"active">>) = {}
        /\ "flag" \in DOMAIN RawForm =>
              \A j \in 1..Len(RawForm["flag"]) :
                  BoolRule(RawForm["flag"][j], ctxObj[1][8].elems[j])

\* One boolean was bound from a literal that parses to false, another from
\* "on".
C13_Witness ==
    /\ FormDecoded /\ target = "Settings"
    /\ "active" \in DOMAIN RawForm /\ "flag" \in DOMAIN RawForm
    /\ RawForm["active"] = <<<<"0">>>>
    /\ RawForm["flag"] = <<<<"o", "n">>>>
    /\ ctxObj[1][3] = FALSE
    /\ ctxObj[1][8].elems = <<TRUE>>

\* Integer x fits a field of integer kind k.
FitsWidth(k, x) ==
    IF Bits(k) >= 32 THEN (k \in IntKinds \/ x >= 0)
    ELSE IF k \in IntKinds
    THEN 0 - Pow2(Bits(k)) \div 2 <= x /\ x < Pow2(Bits(k)) \div 2
    ELSE 0 <= x /\ x < Pow2(Bits(k))

\* The integer fields of the target itself bound from a key whose first raw
\* value is a decimal number.
BoundIntegers ==
    {i \in BoundFields :
        /\ Fields(target)[i].Type \in IntKinds \cup UintKinds
        /\ ParseInt(RawForm[Fields(target)[i].form][1]).ok}

\* C14: an integer field bound from a decimal string holds the number when
\* it fits the field's declared width and keeps zero when it does not: never
\* a wrapped or truncated value; bound from the empty string it holds 0.
C14_IntegerWidth ==
    FormDecoded =>
        /\ \A i \in BoundIntegers :
              LET k == Fields(target)[i].Type
                  x == ParseInt(RawForm[Fields(target)[i].form][1]).val
              IN  ctxObj[1][i] = IF FitsWidth(k, x) THEN x ELSE 0
        /\ \A i \in BoundFields :
              (/\ Fields(target)[i].Type \in IntKinds \cup UintKinds
               /\ RawForm[Fields(target)[i].form][1] = <<>>)
                  => ctxObj[1][i] = 0

\* The classification of the error a rule records.
ClassOfRule(rule) ==
    CASE rule = tagRequired -> RequiredError
      [] rule = tagAlphaDash -> AlphaDashError
      [] rule = tagAlphaDashDot -> AlphaDashDotError
      [] HasPrefix(rule, tagMinSize) -> MinSizeError
      [] HasPrefix(rule, tagMaxSize) -> MaxSizeError
      [] rule = tagEmail -> EmailError
      [] rule = tagUrl -> UrlError
      [] OTHER -> ""

\* C15: a field with the Url rule holding the empty string gets no Url error
\* and no error of any rule listed after Url; holding a non-empty string
\* that does not match the pattern it gets exactly one Url error.
C15_UrlEmptyEndsRules ==
    StructValidated =>
        \A i \in 1..Len(VisitedData) :
            LET f     == VisitedData[i].f
                v     == VisitedData[i].v
                rules == Split(f.binding, ";")
            IN  \A k \in 1..Len(rules) :
                    (rules[k] = tagUrl /\ f.Type = "string") =>
                        /\ v = <<>> =>
                              /\ ErrorsAt(ctxErrors.list, UrlError, <<f.Name>>) = {}
                              /\ \A l \in (k + 1)..Len(rules) :
                                    ErrorsAt(ctxErrors.list, ClassOfRule(rules[l]),
                                             <<f.Name>>) = {}
                        /\ (v # <<>> /\ ~MatchString(urlPattern, v)) =>
                              Cardinality(ErrorsAt(ctxErrors.list, UrlError,
                                                   <<f.Name>>)) = 1

\* A handler mapped the Error List of one struct: a decode handler that
\* bound and validated it, or Validate on it.
OneStructDone ==
    /\ pc = "done" /\ ctxErrors.mapped
    /\ IF handler = "Validate" THEN Kind(data.T) # "slice" ELSE ctxObj # <<>>

\* The fields validation visited in that struct, nested ones before the
\* field that holds them.
OrderVisited ==
    IF handler = "Validate" THEN VisitedData ELSE Visited(target, ctxObj[1], 1)

\* Error e is one a rule of field f records.
Declares(f, e) ==
    /\ e.FieldNames = <<f.Name>>
    /\ \E k \in 1..Len(Split(f.binding, ";")) :
          ClassOfRule(Split(f.binding, ";")[k]) = e.Classification

\* The place of the rule of f that records e in f's rule list.
RulePlace(f, e) ==
    CHOOSE k \in 1..Len(Split(f.binding, ";")) :
        /\ ClassOfRule(Split(f.binding, ";")[k]) = e.Classification
        /\ \A l \in 1..(k - 1) : ClassOfRule(Split(f.binding, ";")[l]) # e.Classification

\* The first visited field of vis with a rule that records e.
FieldPlace(vis, e) ==
    CHOOSE j \in 1..Len(vis) :
        /\ Declares(vis[j].f, e)
        /\ \A l \in 1..(j - 1) : ~Declares(vis[l].f, e)

\* The place of error e in discovery order: deserialization errors first,
\* rule errors by visited field and by rule, everything else (the errors of
\* the validation hook) last.
Rank(vis, e) ==
    IF e.Classification = DeserializationError THEN 0
    ELSE IF \E j \in 1..Len(vis) : Declares(vis[j].f, e)
    THEN 10 * FieldPlace(vis, e) + RulePlace(vis[FieldPlace(vis, e)].f, e)
    ELSE 10 * (Len(vis) + 1)

\* C16: the Error List is in discovery order: deserialization errors, then
\* the rule errors in field-declaration order, depth first, those of a nested
\* struct before those of the field holding it, then the errors of the
\* value's validation hook.
C16_DiscoveryOrder ==
    OneStructDone =>
        \A i \in 1..(Len(ctxErrors.list) - 1) :
            Rank(OrderVisited, ctxErrors.list[i])
                <= Rank(OrderVisited, ctxErrors.list[i + 1])

\* A deserialization error, rule errors of an embedded and of a nested
\* struct and of the struct itself, and a hook error, all in one list.
C16_Witness ==
    /\ OneStructDone /\ target = "BlogPost" /\ handler # "Validate"
    /\ Len(ctxErrors.list) = 5
    /\ ctxErrors.list[1].Classification = DeserializationError
    /\ ctxErrors.list[2].FieldNames = <<"Title">>
    /\ ctxErrors.list[3].FieldNames = <<"Id">>
    /\ ctxErrors.list[4].FieldNames = <<"Name">>
    /\ ctxErrors.list[5].Classification = "LengthError"

\* The leaf fields of the target itself that binding must skip: no form key,
\* the skip marker as key, or not assignable.
SkippedLeaves ==
    {i \in 1..NumField(target) :
        /\ Kind(Fields(target)[i].Type) # "struct"
        /\ ~(Kind(Fields(target)[i].Type) = "ptr" /\ Fields(target)[i].Anonymous)
        /\ \/ Fields(target)[i].form \in {"", "-"}
           \/ ~Fields(target)[i].Exported}

\* C17: after form binding, a leaf field without form key, with the skip
\* marker "-" as key, or unexported still holds its zero value, whatever
\* keys the raw input carries, and no error names it.
C17_SkippedLeavesUntouched ==
    FormDecoded =>
        \A i \in SkippedLeaves :
            /\ ctxObj[1][i] = Zero(Fields(target)[i].Type)
            /\ \A j \in 1..Len(ctxErrors.list) :
                  ctxErrors.list[j].FieldNames
                      \notin {<<Fields(target)[i].form>>, <<Fields(target)[i].Name>>}

\* The file map the decode handler passed to mapForm: that of the multipart
\* form for MultipartForm, none for Form.
FileForm == IF handler = "MultipartForm" THEN req.Multipart.File ELSE EmptyMap

\* The leaf fields of the target itself that have a form key and can be set.
KeyedLeaves ==
    {i \in 1..NumField(target) :
        /\ Kind(Fields(target)[i].Type) # "struct"
        /\ ~(Kind(Fields(target)[i].Type) = "ptr" /\ Fields(target)[i].Anonymous)
        /\ Fields(target)[i].form # ""
        /\ Fields(target)[i].Exported}

IsFileSlice(t) == Kind(t) = "slice" /\ Elem(t) = fhType

\* C18: a field whose key is in the raw value map takes nothing from the
\* file map; a field whose key is in the file map only holds the first
\* handle (a file-handle field) or all handles in their order (a
\* slice-of-file-handle field), and a field of another kind is unchanged; no
\* error is recorded at the key.
C18_FileBinding ==
    FormDecoded =>
        \A i \in KeyedLeaves :
            LET f == Fields(target)[i]
                v == ctxObj[1][i]
            IN  /\ f.form \in DOMAIN RawForm =>
                      /\ f.Type = fhType => v = <<>>
                      /\ IsFileSlice(f.Type) =>
                            \A j \in 1..Len(v.elems) : v.elems[j] = <<>>
                /\ (f.form \notin DOMAIN RawForm /\ f.form \in DOMAIN FileForm) =>
                      /\ f.Type = fhType => v = FileForm[f.form][1]
                      /\ IsFileSlice(f.Type) =>
                            IF Len(FileForm[f.form]) > 0
                            THEN ~v.isNil /\ v.elems = FileForm[f.form]
                            ELSE v = NilSlice
                      /\ (f.Type # fhType /\ ~IsFileSlice(f.Type)) => v = Zero(f.Type)
                      /\ \A j \in 1..Len(ctxErrors.list) :
                            ctxErrors.list[j].FieldNames # <<f.form>>

\* Two different handles of one key were bound to the slice in their order.
C18_Witness ==
    /\ FormDecoded /\ handler = "MultipartForm" /\ target = "BlogPost"
    /\ "picture" \in DOMAIN FileForm /\ "picture" \notin DOMAIN RawForm
    /\ Len(FileForm["picture"]) = 2
    /\ FileForm["picture"][1] # FileForm["picture"][2]
    /\ ctxObj[1][8].elems = FileForm["picture"]

====
